---- MODULE Spec2Model ----
(***************************************************************************)
(* A model of the JSON formatter: JsonUtils (parse, format, compact,       *)
(* toJsonTree, fromJsonTree, findNodeByPath, applyEdit) and the JsonEditor *)
(* component's state and handlers.                                         *)
(*                                                                         *)
(* JavaScript strings are sequences of one-character strings, so that      *)
(* substring, lastIndexOf, split and the scanning of JSON text are         *)
(* computed as the code computes them.  JavaScript values are records      *)
(* carrying a tag; objects that the code mutates in place (the nodes and   *)
(* arrays handled by applyEdit) live in a heap of addresses.               *)
(***************************************************************************)
EXTENDS Integers, Sequences, FiniteSets, TLC

VARIABLES
  \* JsonEditor (useState hooks)
  jsonInput, jsonTree, error, viewMode, isEditing,
  \* JsonEditor: the exception (if any) that escaped the last event handler
  uncaught,
  \* the data the current tree was projected from by toJsonTree
  data,
  \* edit engine: the heap of node and array objects, the snapshots handed
  \* out so far, the last operation and what applyEdit returned for it
  heap, snapshots, lastOp, ret,
  \* JsonUtils.parse: the text given and the result
  text, result,
  \* the JavaScript engine running the program (the form of its messages)
  engine

vars == <<jsonInput, jsonTree, error, viewMode, isEditing, uncaught, data,
          heap, snapshots, lastOp, ret, text, result, engine>>

editorVars == <<jsonInput, jsonTree, error, viewMode, isEditing, uncaught>>

editVars == <<heap, snapshots, lastOp, ret>>

(***************************************************************************)
(* Strings                                                                 *)
(***************************************************************************)
DigitChars == <<"0", "1", "2", "3", "4", "5", "6", "7", "8", "9">>

IsDigit(c) == \E d \in 1..Len(DigitChars) : DigitChars[d] = c

DigitVal(c) == (CHOOSE d \in 1..Len(DigitChars) : DigitChars[d] = c) - 1

\* Number.prototype.toString for a non-negative integer
RECURSIVE NatToStr(_)
NatToStr(n) ==
  IF n < Len(DigitChars) THEN <<DigitChars[n + 1]>>
  ELSE NatToStr(n \div Len(DigitChars)) \o <<DigitChars[(n % Len(DigitChars)) + 1]>>

RECURSIVE StrToNat(_)
StrToNat(s) ==
  IF Len(s) = 0 THEN 0
  ELSE StrToNat(SubSeq(s, 1, Len(s) - 1)) * Len(DigitChars) + DigitVal(s[Len(s)])

\* A property key that a JavaScript array treats as an element index: the
\* canonical decimal form of a non-negative integer.
IsArrayIndex(s) ==
  /\ Len(s) > 0
  /\ \A i \in 1..Len(s) : IsDigit(s[i])
  /\ (Len(s) > 1 => s[1] # "0")

\* String.prototype.lastIndexOf(ch): 0-based, -1 when absent
LastIndexOf(s, ch) ==
  IF \E i \in 1..Len(s) : s[i] = ch
  THEN (CHOOSE i \in 1..Len(s) : s[i] = ch /\ \A j \in (i + 1)..Len(s) : s[j] # ch) - 1
  ELSE -1

\* String.prototype.substring(start, end): negative arguments count as 0
Substring(s, start, end) ==
  LET a == IF start < 0 THEN 0 ELSE IF start > Len(s) THEN Len(s) ELSE start
      b == IF end < 0 THEN 0 ELSE IF end > Len(s) THEN Len(s) ELSE end
      lo == IF a < b THEN a ELSE b
      hi == IF a < b THEN b ELSE a
  IN SubSeq(s, lo + 1, hi)

\* s.split(ch).pop(): what follows the last ch, or all of s
SplitPop(s, ch) == SubSeq(s, LastIndexOf(s, ch) + 2, Len(s))

\* s.split(ch): the pieces between occurrences of ch
RECURSIVE Split(_, _)
Split(s, ch) ==
  LET Cut(i) == <<SubSeq(s, 1, i - 1)>> \o Split(SubSeq(s, i + 1, Len(s)), ch)
  IN IF \E i \in 1..Len(s) : s[i] = ch
     THEN Cut(CHOOSE k \in 1..Len(s) : s[k] = ch /\ \A j \in 1..(k - 1) : s[j] # ch)
     ELSE <<s>>

(***************************************************************************)
(* JavaScript values                                                       *)
(***************************************************************************)
JsNull == [tag |-> "null"]
JsUndefined == [tag |-> "undefined"]
JsBool(b) == [tag |-> "boolean", b |-> b]
JsNum(n) == [tag |-> "number", n |-> n]
JsStr(s) == [tag |-> "string", s |-> s]
\* An array is its elements plus any named (non-index) properties set on it.
JsArrProps(items, props) == [tag |-> "array", items |-> items, props |-> props]
JsArr(items) == JsArrProps(items, <<>>)
\* An object is its entries, in Object.entries order.
JsObj(members) == [tag |-> "object", members |-> members]
Member(k, v) == [k |-> k, v |-> v]

\* the typeof operator
Typeof(v) ==
  CASE v.tag \in {"null", "array", "object"} -> "object"
    [] OTHER -> v.tag

\* Array.isArray
IsArray(v) == v.tag = "array"

HasKey(members, k) == \E i \in 1..Len(members) : members[i].k = k

\* members with key k set to v.  Integer-like keys come first in ascending
\* order, the other keys follow in insertion order; an existing key keeps
\* its place.
IndexBelow(m, n) == IsArrayIndex(m.k) /\ StrToNat(m.k) < n

PropSet(members, k, v) ==
  LET Insert(n) == SelectSeq(members, LAMBDA m : IndexBelow(m, n))
                   \o <<Member(k, v)>>
                   \o SelectSeq(members, LAMBDA m : ~IndexBelow(m, n))
  IN IF HasKey(members, k)
     THEN [i \in 1..Len(members) |->
             IF members[i].k = k THEN Member(k, v) ELSE members[i]]
     ELSE IF IsArrayIndex(k) THEN Insert(StrToNat(k))
     ELSE Append(members, Member(k, v))

\* result[key] = v on an array: an index key writes an element (growing the
\* array, the skipped slots read as undefined), any other key a property.
ArraySet(arr, k, v) ==
  LET Put(idx) ==
        JsArrProps([i \in 1..(IF idx > Len(arr.items) THEN idx ELSE Len(arr.items)) |->
                      IF i = idx THEN v
                      ELSE IF i <= Len(arr.items) THEN arr.items[i]
                      ELSE JsUndefined],
                   arr.props)
  IN IF IsArrayIndex(k) THEN Put(StrToNat(k) + 1)
     ELSE JsArrProps(arr.items, PropSet(arr.props, k, v))

\* Deep equality of two values: arrays by length, elements and named
\* properties, objects by their key sets and the values under each key.
RECURSIVE DeepEquals(_, _), MembersEqual(_, _)
DeepEquals(a, b) ==
  IF a.tag # b.tag THEN FALSE
  ELSE CASE a.tag = "array" ->
              /\ Len(a.items) = Len(b.items)
              /\ \A i \in 1..Len(a.items) : DeepEquals(a.items[i], b.items[i])
              /\ MembersEqual(a.props, b.props)
         [] a.tag = "object" -> MembersEqual(a.members, b.members)
         [] OTHER -> a = b

MembersEqual(ma, mb) ==
  /\ Len(ma) = Len(mb)
  /\ \A i \in 1..Len(ma) :
       \E j \in 1..Len(mb) : ma[i].k = mb[j].k /\ DeepEquals(ma[i].v, mb[j].v)

(***************************************************************************)
(* JSON.parse: a scanner over the text.  A failure carries the 1-based     *)
(* index of the first character that could not be consumed (Len + 1 when   *)
(* the text ended too early).  Fractions, exponents and the \b \f \u       *)
(* escapes are outside the texts of this model.                            *)
(***************************************************************************)
WhiteSpace == {" ", "\n", "\t", "\r"}

ControlChars == {"\n", "\t", "\r"}

Escapes == <<Member("\"", "\""), Member("\\", "\\"), Member("/", "/"),
             Member("n", "\n"), Member("t", "\t"), Member("r", "\r")>>

IsEscape(c) == \E i \in 1..Len(Escapes) : Escapes[i].k = c

Unescape(c) == Escapes[CHOOSE i \in 1..Len(Escapes) : Escapes[i].k = c].v

NeedsEscape(c) == \E i \in 1..Len(Escapes) : Escapes[i].v = c /\ Escapes[i].k # "/"

EscapeOf(c) ==
  <<"\\", Escapes[CHOOSE i \in 1..Len(Escapes) : Escapes[i].v = c /\ Escapes[i].k # "/"].k>>

ParseOk(v, p) == [ok |-> TRUE, val |-> v, pos |-> p]

ParseErr(p) == [ok |-> FALSE, val |-> JsUndefined, pos |-> p]

RECURSIVE SkipWs(_, _)
SkipWs(t, i) ==
  IF i <= Len(t) /\ t[i] \in WhiteSpace THEN SkipWs(t, i + 1) ELSE i

\* i: the index after the opening quote
RECURSIVE ScanString(_, _, _)
ScanString(t, i, acc) ==
  IF i > Len(t) THEN ParseErr(i)
  ELSE IF t[i] = "\"" THEN ParseOk(JsStr(acc), i + 1)
  ELSE IF t[i] \in ControlChars THEN ParseErr(i)
  ELSE IF t[i] = "\\"
  THEN IF i + 1 <= Len(t) /\ IsEscape(t[i + 1])
       THEN ScanString(t, i + 2, Append(acc, Unescape(t[i + 1])))
       ELSE ParseErr(i + 1)
  ELSE ScanString(t, i + 1, Append(acc, t[i]))

RECURSIVE DigitsEnd(_, _)
DigitsEnd(t, i) ==
  IF i <= Len(t) /\ IsDigit(t[i]) THEN DigitsEnd(t, i + 1) ELSE i

\* i: the index of the minus sign or of the first digit
ScanNumber(t, i) ==
  LET Digits(neg, s, e) ==
        ParseOk(JsNum(IF neg THEN 0 - StrToNat(SubSeq(t, s, e - 1))
                      ELSE StrToNat(SubSeq(t, s, e - 1))), e)
      From(neg, s) ==
        IF s > Len(t) \/ ~IsDigit(t[s]) THEN ParseErr(s)
        ELSE Digits(neg, s, IF t[s] = "0" THEN s + 1 ELSE DigitsEnd(t, s))
  IN From(t[i] = "-", IF t[i] = "-" THEN i + 1 ELSE i)

\* k: how many characters of lit have matched so far
RECURSIVE ScanLiteral(_, _, _, _, _)
ScanLiteral(t, i, lit, k, v) ==
  IF k = Len(lit) THEN ParseOk(v, i + k)
  ELSE IF i + k > Len(t) \/ t[i + k] # lit[k + 1] THEN ParseErr(i + k)
  ELSE ScanLiteral(t, i, lit, k + 1, v)

Literals == <<Member(<<"n", "u", "l", "l">>, JsNull),
              Member(<<"t", "r", "u", "e">>, JsBool(TRUE)),
              Member(<<"f", "a", "l", "s", "e">>, JsBool(FALSE))>>

RECURSIVE ParseValue(_, _), ParseElements(_, _, _), ParseMembers(_, _, _)
ParseValue(t, i) ==
  LET Lit(j, m) == ScanLiteral(t, j, m.k, 0, m.v)
      At(j) ==
        IF j > Len(t) THEN ParseErr(j)
        ELSE IF t[j] = "[" THEN ParseElements(t, j + 1, <<>>)
        ELSE IF t[j] = "{" THEN ParseMembers(t, j + 1, <<>>)
        ELSE IF t[j] = "\"" THEN ScanString(t, j + 1, <<>>)
        ELSE IF t[j] = "-" \/ IsDigit(t[j]) THEN ScanNumber(t, j)
        ELSE IF \E n \in 1..Len(Literals) : Literals[n].k[1] = t[j]
        THEN Lit(j, Literals[CHOOSE n \in 1..Len(Literals) : Literals[n].k[1] = t[j]])
        ELSE ParseErr(j)
  IN At(SkipWs(t, i))

\* i: where the next element (or, with acc empty, the closing bracket) is
\* looked for; acc: the elements read so far
ParseElements(t, i, acc) ==
  LET Sep(m, got) ==
        IF m > Len(t) THEN ParseErr(m)
        ELSE IF t[m] = "," THEN ParseElements(t, m + 1, got)
        ELSE IF t[m] = "]" THEN ParseOk(JsArr(got), m + 1)
        ELSE ParseErr(m)
      After(r) ==
        IF ~r.ok THEN r ELSE Sep(SkipWs(t, r.pos), Append(acc, r.val))
      At(j) ==
        IF acc = <<>> /\ j <= Len(t) /\ t[j] = "]" THEN ParseOk(JsArr(<<>>), j + 1)
        ELSE After(ParseValue(t, j))
  IN At(SkipWs(t, i))

\* i: where the next member's key (or, with acc empty, the closing brace) is
\* looked for; acc: the members read so far
ParseMembers(t, i, acc) ==
  LET Sep(m, got) ==
        IF m > Len(t) THEN ParseErr(m)
        ELSE IF t[m] = "," THEN ParseMembers(t, m + 1, got)
        ELSE IF t[m] = "}" THEN ParseOk(JsObj(got), m + 1)
        ELSE ParseErr(m)
      AfterValue(key, r) ==
        IF ~r.ok THEN r ELSE Sep(SkipWs(t, r.pos), PropSet(acc, key, r.val))
      Colon(key, c) ==
        IF c > Len(t) \/ t[c] # ":" THEN ParseErr(c)
        ELSE AfterValue(key, ParseValue(t, c + 1))
      AfterKey(k) ==
        IF ~k.ok THEN k ELSE Colon(k.val.s, SkipWs(t, k.pos))
      At(j) ==
        IF acc = <<>> /\ j <= Len(t) /\ t[j] = "}" THEN ParseOk(JsObj(<<>>), j + 1)
        ELSE IF j > Len(t) \/ t[j] # "\"" THEN ParseErr(j)
        ELSE AfterKey(ScanString(t, j + 1, <<>>))
  IN At(SkipWs(t, i))

\* JSON.parse(t): a value, or the failure of the first unconsumable character
JSONparse(t) ==
  LET End(r, m) == IF m <= Len(t) THEN ParseErr(m) ELSE r
      Whole(r) == IF ~r.ok THEN r ELSE End(r, SkipWs(t, r.pos))
  IN Whole(ParseValue(t, 1))

(***************************************************************************)
(* JSON.stringify(value, null, indent); indent 0 is the compact form       *)
(***************************************************************************)
Spaces(n) == [i \in 1..n |-> " "]

RECURSIVE Concat(_)
Concat(ss) == IF Len(ss) = 0 THEN <<>> ELSE Head(ss) \o Concat(Tail(ss))

RECURSIVE Join(_, _)
Join(ss, sep) ==
  IF Len(ss) = 0 THEN <<>>
  ELSE IF Len(ss) = 1 THEN Head(ss)
  ELSE Head(ss) \o sep \o Join(Tail(ss), sep)

Quote(s) ==
  <<"\"">> \o Concat([i \in 1..Len(s) |->
                        IF NeedsEscape(s[i]) THEN EscapeOf(s[i]) ELSE <<s[i]>>])
           \o <<"\"">>

\* parts between brackets: one per line at depth cur + indent, or packed
Bracketed(open, parts, close, indent, cur) ==
  IF Len(parts) = 0 THEN <<open, close>>
  ELSE IF indent = 0 THEN <<open>> \o Join(parts, <<",">>) \o <<close>>
  ELSE <<open, "\n">> \o Spaces(cur + indent)
       \o Join(parts, <<",", "\n">> \o Spaces(cur + indent))
       \o <<"\n">> \o Spaces(cur) \o <<close>>

RECURSIVE Stringify(_, _, _)
Stringify(v, indent, cur) ==
  LET Entries(shown) ==
        [i \in 1..Len(shown) |->
           Quote(shown[i].k) \o (IF indent = 0 THEN <<":">> ELSE <<":", " ">>)
           \o Stringify(shown[i].v, indent, cur + indent)]
  IN CASE v.tag = "null" -> <<"n", "u", "l", "l">>
       [] v.tag = "undefined" -> <<"n", "u", "l", "l">>
       [] v.tag = "boolean" ->
            IF v.b THEN <<"t", "r", "u", "e">> ELSE <<"f", "a", "l", "s", "e">>
       [] v.tag = "number" ->
            IF v.n < 0 THEN <<"-">> \o NatToStr(0 - v.n) ELSE NatToStr(v.n)
       [] v.tag = "string" -> Quote(v.s)
       [] v.tag = "array" ->
            Bracketed("[", [i \in 1..Len(v.items) |->
                              Stringify(v.items[i], indent, cur + indent)],
                      "]", indent, cur)
       [] v.tag = "object" ->
            Bracketed("{", Entries(SelectSeq(v.members,
                                             LAMBDA m : m.v.tag # "undefined")),
                      "}", indent, cur)

(***************************************************************************)
(* JsonUtils.parse                                                         *)
(***************************************************************************)
\* The message of the SyntaxError JSON.parse throws.  Only whether it holds
\* the words "position <offset>" matters to the code; at is that offset, or
\* -1 for a message without them.  A "positional" engine names the offset of
\* an unexpected character and reports the end of the input without one
\* ("Unexpected end of JSON input"); a "plain" engine never names an offset.
Engines == {"positional", "plain"}

SyntaxErrorMessage(eng, t, r) ==
  IF eng = "positional" /\ r.pos <= Len(t)
  THEN [name |-> "SyntaxError", at |-> r.pos - 1]
  ELSE [name |-> "SyntaxError", at |-> -1]

\* e.message.match(/position (\d+)/), then parseInt of the group or 0
MatchPosition(message) == IF message.at >= 0 THEN message.at ELSE 0

parse(eng, jsonString) ==
  LET Located(message, lines) ==
        [data |-> JsNull,
         error |-> [message |-> message, line |-> Len(lines),
                    column |-> Len(lines[Len(lines)]) + 1]]
      Caught(message) ==
        Located(message,
                Split(Substring(jsonString, 0, MatchPosition(message)), "\n"))
      Try(r) ==
        IF r.ok THEN [data |-> r.val, error |-> JsNull]
        ELSE Caught(SyntaxErrorMessage(eng, jsonString, r))
  IN Try(JSONparse(jsonString))

IndentDefault == 2

format(v) == Stringify(v, IndentDefault, 0)

compact(v) == Stringify(v, 0, 0)

(***************************************************************************)
(* JsonUtils.toJsonTree, fromJsonTree                                      *)
(* A node is a record; its optional properties (index, expanded, children) *)
(* are fields that may be missing from its domain.                         *)
(***************************************************************************)
AutoExpandDepth == 2

Has(node, f) == f \in DOMAIN node

Field(node, f) == IF Has(node, f) THEN node[f] ELSE JsUndefined

\* node.expanded as a condition
Expanded(node) == Has(node, "expanded") /\ node.expanded

With(node, f, v) == (f :> v) @@ node

\* Array.isArray(x) ? 'array' : typeof x === 'object' && x !== null ? 'object' : typeof x
TypeOfMember(item) ==
  IF IsArray(item) THEN "array"
  ELSE IF Typeof(item) = "object" /\ item # JsNull THEN "object"
  ELSE Typeof(item)

\* parentPath ? `${parentPath}[${index}]` : `[${index}]`
IndexPath(parentPath, index) ==
  IF parentPath # <<>>
  THEN parentPath \o <<"[">> \o NatToStr(index) \o <<"]">>
  ELSE <<"[">> \o NatToStr(index) \o <<"]">>

\* parentPath ? `${parentPath}.${key}` : key
KeyPath(parentPath, key) ==
  IF parentPath # <<>> THEN parentPath \o <<".">> \o key ELSE key

RECURSIVE toJsonTree(_, _, _)
toJsonTree(d, parentPath, level) ==
  LET Children(node) ==
        IF node.type = "object" \/ node.type = "array"
        THEN With(node, "children", toJsonTree(node.value, node.path, level + 1))
        ELSE node
      Item(item, index) ==
        Children([key |-> NatToStr(index), value |-> item,
                  type |-> TypeOfMember(item),
                  path |-> IndexPath(parentPath, index),
                  level |-> level, index |-> index,
                  expanded |-> level < AutoExpandDepth])
      Entry(key, value) ==
        Children([key |-> key, value |-> value,
                  type |-> TypeOfMember(value),
                  path |-> KeyPath(parentPath, key),
                  level |-> level,
                  expanded |-> level < AutoExpandDepth])
  IN IF Typeof(d) = "object" /\ d # JsNull
     THEN IF IsArray(d)
          THEN [i \in 1..Len(d.items) |-> Item(d.items[i], i - 1)]
          ELSE [i \in 1..Len(d.members) |-> Entry(d.members[i].k, d.members[i].v)]
     ELSE <<>>

\* nodes is always an array, so the result starts as [] and every node is
\* written with result[node.key] = ...
RECURSIVE fromJsonTree(_), fromJsonTreeFrom(_, _, _)
fromJsonTree(nodes) == fromJsonTreeFrom(nodes, 1, JsArr(<<>>))

fromJsonTreeFrom(nodes, i, res) ==
  IF i > Len(nodes) THEN res
  ELSE fromJsonTreeFrom(nodes, i + 1,
         ArraySet(res, nodes[i].key,
                  IF Has(nodes[i], "children") /\ Expanded(nodes[i])
                  THEN fromJsonTree(nodes[i].children)
                  ELSE Field(nodes[i], "value")))

\* every node of a tree, parents before their children
RECURSIVE AllNodes(_)
AllNodes(nodes) ==
  Concat([i \in 1..Len(nodes) |->
            <<nodes[i]>> \o (IF Has(nodes[i], "children")
                             THEN AllNodes(nodes[i].children) ELSE <<>>)])

(***************************************************************************)
(* The heap.  applyEdit and its helpers write to node objects and push to  *)
(* arrays in place, so the trees they handle are objects with identity: an *)
(* address is an index of heap, a node object is the node record with the  *)
(* address of its children array, an array object is [elems |-> addresses].*)
(* Address 0 is null.                                                      *)
(***************************************************************************)
\* what JSON.stringify writes and JSON.parse reads back for a value: array
\* slots holding undefined become null, object entries holding undefined and
\* the named properties of arrays are dropped
RECURSIVE JsonCopyValue(_)
JsonCopyValue(v) ==
  LET Kept(kept) ==
        JsObj([i \in 1..Len(kept) |-> Member(kept[i].k, JsonCopyValue(kept[i].v))])
  IN CASE v.tag = "array" ->
            JsArr([i \in 1..Len(v.items) |->
                     IF v.items[i].tag = "undefined" THEN JsNull
                     ELSE JsonCopyValue(v.items[i])])
       [] v.tag = "object" ->
            Kept(SelectSeq(v.members, LAMBDA m : m.v.tag # "undefined"))
       [] OTHER -> v

\* the same for a tree of nodes: a node whose value is undefined loses the
\* property
RECURSIVE JsonCopyNodes(_)
JsonCopyNodes(nodes) ==
  LET Copy(n) ==
        [f \in {g \in DOMAIN n : g # "value" \/ n.value.tag # "undefined"} |->
           IF f = "value" THEN JsonCopyValue(n.value)
           ELSE IF f = "children" THEN JsonCopyNodes(n.children)
           ELSE n[f]]
  IN [i \in 1..Len(nodes) |-> Copy(nodes[i])]

\* the tree of nodes an array object holds, as a value (JSON.stringify's view)
RECURSIVE Deref(_, _)
Deref(h, arr) ==
  LET Node(n) ==
        IF Has(n, "children") THEN With(n, "children", Deref(h, n.children)) ELSE n
  IN [i \in 1..Len(h[arr].elems) |-> Node(h[h[arr].elems[i]])]

\* fresh objects for a tree of nodes (JSON.parse's, or toJsonTree's, result):
\* the heap after the allocation and the address of the array
RECURSIVE AllocNodes(_, _), AllocFrom(_, _, _, _)
AllocNodes(h, nodes) == AllocFrom(h, nodes, 1, <<>>)

AllocFrom(h, nodes, i, addrs) ==
  LET Next1(h2) == AllocFrom(h2, nodes, i + 1, Append(addrs, Len(h2)))
      Sub(n, sub) == Next1(Append(sub.heap, With(n, "children", sub.addr)))
  IN IF i > Len(nodes)
     THEN [heap |-> Append(h, [elems |-> addrs]), addr |-> Len(h) + 1]
     ELSE IF Has(nodes[i], "children")
     THEN Sub(nodes[i], AllocNodes(h, nodes[i].children))
     ELSE Next1(Append(h, nodes[i]))

\* the addresses reachable from an array object, itself included
RECURSIVE Reach(_, _)
Reach(h, arr) ==
  LET Node(a) ==
        {a} \cup (IF Has(h[a], "children") THEN Reach(h, h[a].children) ELSE {})
  IN {arr} \cup UNION {Node(h[arr].elems[i]) : i \in 1..Len(h[arr].elems)}

(***************************************************************************)
(* JsonUtils.findNodeByPath, applyEdit                                     *)
(***************************************************************************)
\* the address of the first node, depth first, whose path is path; 0 for null
RECURSIVE FindFrom(_, _, _, _)
FindFrom(h, elems, i, path) ==
  LET Or(found) == IF found # 0 THEN found ELSE FindFrom(h, elems, i + 1, path)
      Node(a, n) ==
        IF n.path = path THEN a
        ELSE Or(IF Has(n, "children")
                THEN FindFrom(h, h[n.children].elems, 1, path)
                ELSE 0)
  IN IF i > Len(elems) THEN 0 ELSE Node(elems[i], h[elems[i]])

findNodeByPath(h, nodes, path) == FindFrom(h, h[nodes].elems, 1, path)

\* The edit helpers return the heap they leave and the array they return.
Returned(h, nodes) == [heap |-> h, nodes |-> nodes]

_addNode(h, nodes, op) ==
  LET parentPath == Substring(op.path, 0, LastIndexOf(op.path, "."))
      newNode == [key |-> op.key, value |-> op.value,
                  type |-> Typeof(op.value), path |-> op.key, level |-> 0]
  IN IF parentPath = <<>>
     THEN Returned(Append([h EXCEPT ![nodes].elems = Append(@, Len(h) + 1)], newNode),
                   nodes)
     ELSE Returned(h, nodes)

_updateNode(h, nodes, op) ==
  LET Write(node) ==
        IF node # 0
        THEN Returned([h EXCEPT ![node] =
                         With(With(@, "value", op.value), "type", Typeof(op.value))],
                      nodes)
        ELSE Returned(h, nodes)
  IN Write(findNodeByPath(h, nodes, op.path))

_deleteNode(h, nodes, op) ==
  LET parentPath == Substring(op.path, 0, LastIndexOf(op.path, "."))
      key == SplitPop(op.path, ".")
  IN IF parentPath = <<>>
     THEN Returned(Append(h, [elems |-> SelectSeq(h[nodes].elems,
                                                  LAMBDA a : h[a].key # key)]),
                   Len(h) + 1)
     ELSE Returned(h, nodes)

_moveNode(h, nodes, op) == Returned(h, nodes)

\* newRoot = root: the edit works on the caller's own node objects.
CloneRootShared(h, root) == [heap |-> h, addr |-> root]

\* const newRoot = JSON.parse(JSON.stringify(root))
CloneRoot(h, root) == AllocNodes(h, JsonCopyNodes(Deref(h, root)))

Dispatch(h, newRoot, op) ==
  CASE op.type = "add" -> _addNode(h, newRoot, op)
    [] op.type = "update" -> _updateNode(h, newRoot, op)
    [] op.type = "delete" -> _deleteNode(h, newRoot, op)
    [] op.type = "move" -> _moveNode(h, newRoot, op)
    [] OTHER -> Returned(h, newRoot)

applyEdit(h, root, op) ==
  LET On(copy) == Dispatch(copy.heap, copy.addr, op)
  IN On(CloneRoot(h, root))

(***************************************************************************)
(* JsonEditor                                                              *)
(***************************************************************************)
\* parseJson: the error, jsonTree and data it leaves
parseJson(eng, jsonString) ==
  LET Set(r) ==
        IF r.error # JsNull
        THEN [error |-> r.error, jsonTree |-> <<>>, data |-> r.data]
        ELSE [error |-> JsNull, jsonTree |-> toJsonTree(r.data, <<>>, 0),
              data |-> r.data]
  IN Set(parse(eng, jsonString))

\* toggleNode's updateExpanded
RECURSIVE updateExpanded(_, _)
updateExpanded(nodes, path) ==
  LET Map(node) ==
        IF node.path = path THEN With(node, "expanded", ~Expanded(node))
        ELSE IF Has(node, "children")
        THEN With(node, "children", updateExpanded(node.children, path))
        ELSE node
  IN [i \in 1..Len(nodes) |-> Map(nodes[i])]

isExpandable(node) == node.type = "object" \/ node.type = "array"

\* the nodes renderNode draws: a node's children only under an expanded,
\* expandable node that has children
RECURSIVE Rendered(_)
Rendered(nodes) ==
  LET Draw(node) ==
        <<node>> \o (IF isExpandable(node) /\ Expanded(node) /\ Has(node, "children")
                     THEN Rendered(node.children) ELSE <<>>)
  IN Concat([i \in 1..Len(nodes) |-> Draw(nodes[i])])

\* the paths with an expand button on screen
ButtonPaths(drawn) == {drawn[i].path : i \in {k \in 1..Len(drawn) : isExpandable(drawn[k])}}

TogglePaths(nodes) == ButtonPaths(Rendered(nodes))

Q == "\""

\* The texts typed or passed as initialJson.
InputTexts ==
  { \* {"a":1,"b":[2,3]}
    <<"{", Q, "a", Q, ":", "1", ",", Q, "b", Q, ":", "[", "2", ",", "3", "]", "}">>,
    \* {"a": }
    <<"{", Q, "a", Q, ":", " ", "}">>,
    \* a second line that breaks off:  [ newline 1,
    <<"[", "\n", "1", ",">>,
    \* {"a.b":[],"a":{"b":[]}}
    <<"{", Q, "a", ".", "b", Q, ":", "[", "]", ",",
      Q, "a", Q, ":", "{", Q, "b", Q, ":", "[", "]", "}", "}">>,
    \* [[[1]],null]
    <<"[", "[", "[", "1", "]", "]", ",", "n", "u", "l", "l", "]">> }

NoOp == [type |-> "none"]

NotParsed == [parsed |-> FALSE]

EditorIdle ==
  /\ jsonInput = <<>>
  /\ jsonTree = <<>>
  /\ error = JsNull
  /\ viewMode = "tree"
  /\ isEditing = FALSE
  /\ uncaught = "none"

EditIdle ==
  /\ heap = <<>>
  /\ snapshots = <<>>
  /\ lastOp = NoOp
  /\ ret = [failure |-> "none", nodes |-> 0]

ParseIdle ==
  /\ text = <<>>
  /\ result = NotParsed

\* the component after its first render and the mount effect's parseJson
Init ==
  \E t \in InputTexts, eng \in Engines :
    \E p \in {parseJson(eng, t)} :
       /\ jsonInput = t
       /\ engine = eng
       /\ error = p.error
       /\ jsonTree = p.jsonTree
       /\ data = p.data
       /\ viewMode = "tree"
       /\ isEditing = FALSE
       /\ uncaught = "none"
       /\ EditIdle
       /\ ParseIdle

\* a textarea bound to handleInputChange is on screen: the raw view, or the
\* tree view while editing
handleInputChange(value) ==
  /\ viewMode = "raw" \/ isEditing
  /\ jsonInput' = value
  /\ IF viewMode = "raw"
     THEN \E p \in {parseJson(engine, value)} :
            error' = p.error /\ jsonTree' = p.jsonTree /\ data' = p.data
     ELSE UNCHANGED <<error, jsonTree, data>>
  /\ uncaught' = "none"
  /\ UNCHANGED <<viewMode, isEditing, engine, editVars, text, result>>

\* formatJson: the button is on screen in the tree view and disabled while
\* error is set; JSON.parse throws out of the handler on text it rejects
formatJson ==
  /\ viewMode = "tree"
  /\ error = JsNull
  /\ \E r \in {JSONparse(jsonInput)} :
       IF error # JsNull THEN UNCHANGED jsonInput /\ uncaught' = "none"
       ELSE IF r.ok THEN jsonInput' = format(r.val) /\ uncaught' = "none"
       ELSE UNCHANGED jsonInput /\ uncaught' = "formatJson"
  /\ UNCHANGED <<jsonTree, error, viewMode, isEditing, data, engine, editVars,
                 text, result>>

compactJson ==
  /\ viewMode = "tree"
  /\ error = JsNull
  /\ \E r \in {JSONparse(jsonInput)} :
       IF error # JsNull THEN UNCHANGED jsonInput /\ uncaught' = "none"
       ELSE IF r.ok THEN jsonInput' = compact(r.val) /\ uncaught' = "none"
       ELSE UNCHANGED jsonInput /\ uncaught' = "compactJson"
  /\ UNCHANGED <<jsonTree, error, viewMode, isEditing, data, engine, editVars,
                 text, result>>

\* a click on the expand button of a node on screen
toggleNode(path) ==
  /\ viewMode = "tree"
  /\ ~isEditing
  /\ jsonTree' = updateExpanded(jsonTree, path)
  /\ uncaught' = "none"
  /\ UNCHANGED <<jsonInput, error, viewMode, isEditing, data, engine, editVars,
                 text, result>>

toggleEditMode ==
  /\ IF isEditing
     THEN \E p \in {parseJson(engine, jsonInput)} :
            error' = p.error /\ jsonTree' = p.jsonTree /\ data' = p.data
     ELSE UNCHANGED <<error, jsonTree, data>>
  /\ isEditing' = ~isEditing
  /\ uncaught' = "none"
  /\ UNCHANGED <<jsonInput, viewMode, engine, editVars, text, result>>

setViewMode(mode) ==
  /\ viewMode' = mode
  /\ uncaught' = "none"
  /\ UNCHANGED <<jsonInput, jsonTree, error, isEditing, data, engine, editVars,
                 text, result>>

TypeText == \E value \in InputTexts : handleInputChange(value)

ClickToggle == \E path \in TogglePaths(jsonTree) : toggleNode(path)

ClickViewMode == \E mode \in {"tree", "raw"} : setViewMode(mode)

Next ==
  \/ TypeText
  \/ formatJson
  \/ compactJson
  \/ ClickToggle
  \/ toggleEditMode
  \/ ClickViewMode

Spec == Init /\ [][Next]_vars

(***************************************************************************)
(* The edit engine driven on its own: a tree projected from a value, then  *)
(* applyEdit calls, each on the tree the call before returned.             *)
(***************************************************************************)
MaxEdits == 2

A == <<"a">>
B == <<"b">>
C == <<"c">>
B0 == <<"b", "[", "0", "]">>

EditValues ==
  { \* {"a":1,"b":[2,3]}
    JsObj(<<Member(A, JsNum(1)), Member(B, JsArr(<<JsNum(2), JsNum(3)>>))>>),
    \* {"a":null}
    JsObj(<<Member(A, JsNull)>>),
    \* [1,[2]]
    JsArr(<<JsNum(1), JsArr(<<JsNum(2)>>)>>),
    \* {"a":{"c":"s"},"b":true}
    JsObj(<<Member(A, JsObj(<<Member(C, JsStr(<<"s">>))>>)), Member(B, JsBool(TRUE))>>) }

AddOps ==
  { [type |-> "add", path |-> C, key |-> C, value |-> JsArr(<<>>)],
    [type |-> "add", path |-> A, key |-> A, value |-> JsNum(5)],
    [type |-> "add", path |-> <<"b", ".", "c">>, key |-> C, value |-> JsNum(5)] }

UpdateOps ==
  { [type |-> "update", path |-> p, value |-> v] :
      p \in {A, B0, <<"[", "1", "]">>, <<"z">>},
      v \in {JsNum(5), JsArr(<<JsNum(7)>>)} }

DeleteOps ==
  { [type |-> "delete", path |-> p] : p \in {A, B0, <<"a", ".", "c">>, <<"z">>} }

MoveOps == { [type |-> "move", path |-> A, newPath |-> <<"b", ".", "a">>] }

\* what a caller holds of a tree: its array, and the tree as it was when the
\* caller got it
Snapshot(h, nodes) == [root |-> nodes, was |-> Deref(h, nodes)]

EditInit ==
  \E v \in EditValues :
    \E made \in {AllocNodes(<<>>, toJsonTree(v, <<>>, 0))} :
       /\ data = v
       /\ heap = made.heap
       /\ snapshots = <<Snapshot(made.heap, made.addr)>>
       /\ lastOp = NoOp
       /\ ret = [failure |-> "none", nodes |-> made.addr]
       /\ engine = "plain"
       /\ EditorIdle
       /\ ParseIdle

\* one applyEdit call on the tree last returned; applyEdit returns an array
\* of nodes on every path, never a failure
ApplyEdit(op) ==
  /\ Len(snapshots) <= MaxEdits
  /\ \E r \in {applyEdit(heap, ret.nodes, op)} :
       /\ heap' = r.heap
       /\ ret' = [failure |-> "none", nodes |-> r.nodes]
       /\ snapshots' = Append(snapshots, Snapshot(r.heap, r.nodes))
  /\ lastOp' = op
  /\ UNCHANGED <<editorVars, data, text, result, engine>>

EditAdd == \E op \in AddOps : ApplyEdit(op)

EditUpdate == \E op \in UpdateOps : ApplyEdit(op)

EditDelete == \E op \in DeleteOps : ApplyEdit(op)

EditMove == \E op \in MoveOps : ApplyEdit(op)

EditNext ==
  \/ EditAdd
  \/ EditUpdate
  \/ EditDelete
  \/ EditMove

SpecEdit == EditInit /\ [][EditNext]_vars

(***************************************************************************)
(* JsonUtils.parse on every text over a few characters                     *)
(***************************************************************************)
MaxTextLen == 4

ParseChars == {"[", "]", "1", ",", "\n", "{"}

Texts == UNION {[1..n -> ParseChars] : n \in 0..MaxTextLen}

ParseInit ==
  /\ text \in Texts
  /\ engine \in Engines
  /\ result = NotParsed
  /\ data = JsNull
  /\ EditorIdle
  /\ EditIdle

ParseText ==
  /\ ~result.parsed
  /\ result' = [parsed |-> TRUE, out |-> parse(engine, text)]
  /\ UNCHANGED <<editorVars, data, editVars, text, engine>>

ParseNext == ParseText

SpecParse == ParseInit /\ [][ParseNext]_vars

(***************************************************************************)
(* Properties                                                              *)
(***************************************************************************)
\* the tree applyEdit last returned, and the tree that call was given
Tree == Deref(heap, ret.nodes)

InputTree == snapshots[Len(snapshots) - 1].was

Paths(nodes) == {AllNodes(nodes)[i].path : i \in 1..Len(AllNodes(nodes))}

Resolves(nodes, path) == path \in Paths(nodes)

\* the first node, parents before children, whose path is path
NodeAt(nodes, path) ==
  AllNodes(nodes)[CHOOSE i \in 1..Len(AllNodes(nodes)) :
                    /\ AllNodes(nodes)[i].path = path
                    /\ \A j \in 1..(i - 1) : AllNodes(nodes)[j].path # path]

\* a node's own properties, its children left out
Own(node) == [f \in (DOMAIN node) \ {"children"} |-> node[f]]

\* the path of the node whose children hold the node at path; <<>> when the
\* node at path is a top-level node
RECURSIVE ParentPath(_, _, _)
ParentPath(nodes, path, above) ==
  IF \E i \in 1..Len(nodes) : nodes[i].path = path THEN above
  ELSE LET under == {i \in 1..Len(nodes) :
                       Has(nodes[i], "children") /\ Resolves(nodes[i].children, path)}
           first == CHOOSE i \in under : \A j \in under : i <= j
       IN ParentPath(nodes[first].children, path, nodes[first].path)

ChildrenAt(nodes, parentPath) ==
  IF parentPath = <<>> THEN nodes ELSE Field(NodeAt(nodes, parentPath), "children")

ValuesOf(nodes) == [i \in 1..Len(nodes) |-> Field(nodes[i], "value")]

Without(seq, k) == [i \in 1..(Len(seq) - 1) |-> IF i < k THEN seq[i] ELSE seq[i + 1]]

IndexOfPath(nodes, path) == CHOOSE i \in 1..Len(nodes) : nodes[i].path = path

\* the value v without the member that toJsonTree gives the path path
RECURSIVE ValueWithout(_, _, _)
ValueWithout(v, parentPath, path) ==
  IF v.tag = "array"
  THEN LET kept == SelectSeq([i \in 1..Len(v.items) |-> i],
                             LAMBDA i : IndexPath(parentPath, i - 1) # path)
       IN JsArr([j \in 1..Len(kept) |->
                   ValueWithout(v.items[kept[j]], IndexPath(parentPath, kept[j] - 1), path)])
  ELSE IF v.tag = "object"
  THEN LET kept == SelectSeq(v.members, LAMBDA m : KeyPath(parentPath, m.k) # path)
       IN JsObj([j \in 1..Len(kept) |->
                   Member(kept[j].k,
                          ValueWithout(kept[j].v, KeyPath(parentPath, kept[j].k), path))])
  ELSE v

\* C1: for a value with an object or array at the root, fromJsonTree of the
\* tree toJsonTree projected from it deep-equals the value, whatever nodes
\* have been expanded or collapsed since.
C1_TreeRoundTrip ==
  (error = JsNull /\ data.tag \in {"object", "array"})
     => DeepEquals(fromJsonTree(jsonTree), data)

\* C2: a delete whose path resolves in a tree built by toJsonTree(v) removes
\* exactly that node from its parent's children, the other children keeping
\* their order, and the result converts back to v without that member.
C2_DeleteRemovesNode ==
  (lastOp.type = "delete" /\ Len(snapshots) = 2 /\ Resolves(InputTree, lastOp.path))
     => LET parent == ParentPath(InputTree, lastOp.path, <<>>)
            before == ChildrenAt(InputTree, parent)
        IN /\ ValuesOf(ChildrenAt(Tree, parent))
                = Without(ValuesOf(before), IndexOfPath(before, lastOp.path))
           /\ DeepEquals(fromJsonTree(Tree), ValueWithout(data, <<>>, lastOp.path))

\* C3: an update whose path resolves to no node returns a NotFound failure
\* and a tree equal to the input tree.
C3_UpdateNotFound ==
  (lastOp.type = "update" /\ ~Resolves(InputTree, lastOp.path))
     => (ret.failure = "NotFound" /\ Tree = InputTree)

\* C4: applyEdit leaves the tree it is given unchanged: every snapshot still
\* reads as it did when it was produced, and no two snapshots share a node
\* or an array.
C4_SnapshotsUntouched ==
  /\ \A i \in 1..Len(snapshots) : Deref(heap, snapshots[i].root) = snapshots[i].was
  /\ \A i, j \in 1..Len(snapshots) :
       i < j => Reach(heap, snapshots[i].root) \cap Reach(heap, snapshots[j].root) = {}

\* an update has written to a node of its copy (the returned tree differs
\* from the one given) after an earlier edit
C4_Witness ==
  /\ Len(snapshots) >= 3
  /\ lastOp.type = "update"
  /\ Resolves(InputTree, lastOp.path)
  /\ Tree # InputTree

\* C5: no two distinct nodes of a tree carry the same path.
C5_PathsUnique ==
  \A i, j \in 1..Len(AllNodes(Tree)) :
    i # j => AllNodes(Tree)[i].path # AllNodes(Tree)[j].path

\* C6: toggling a path twice gives the tree back, and one toggle inverts the
\* expanded flag of the node at that path and changes no other node.
C6_Toggle ==
  \A p \in Paths(jsonTree) :
    LET once == updateExpanded(jsonTree, p)
        before == AllNodes(jsonTree)
        after == AllNodes(once)
        target == CHOOSE i \in 1..Len(before) :
                    before[i].path = p /\ \A j \in 1..(i - 1) : before[j].path # p
    IN /\ updateExpanded(once, p) = jsonTree
       /\ Len(after) = Len(before)
       /\ \A i \in 1..Len(before) :
            IF i = target
            THEN Own(after[i]) = With(Own(before[i]), "expanded", ~Expanded(before[i]))
            ELSE Own(after[i]) = Own(before[i])

\* C7: formatJson and compactJson never get past their error guard on text
\* that fails to parse: whenever the guard lets a click through, jsonInput is
\* well-formed, and no SyntaxError escapes either handler.
C7_NoFormatOfBadText ==
  /\ (viewMode = "tree" /\ error = JsNull) => JSONparse(jsonInput).ok
  /\ uncaught = "none"

\* C8: the error parse returns for a rejected text has line = 1 + the number
\* of newlines before the offset of the first unconsumable character, and
\* column = that character's 1-based position within its line.
C8_ErrorLocation ==
  (result.parsed /\ result.out.error # JsNull)
     => LET offset == JSONparse(text).pos - 1
            newlines == {i \in 1..offset : text[i] = "\n"}
            lineStart == IF newlines = {} THEN 0
                         ELSE CHOOSE i \in newlines : \A j \in newlines : j <= i
        IN /\ result.out.error.line = 1 + Cardinality(newlines)
           /\ result.out.error.column = offset - lineStart + 1

\* C9: a node has children if and only if its type is object or array.
C9_ChildrenIffContainer ==
  \A i \in 1..Len(AllNodes(Tree)) :
    Has(AllNodes(Tree)[i], "children") <=> isExpandable(AllNodes(Tree)[i])

\* C10: the type of every node is the tag of the value it holds.
C10_TypeIsTag ==
  \A i \in 1..Len(AllNodes(Tree)) :
    AllNodes(Tree)[i].type = Field(AllNodes(Tree)[i], "value").tag

====
